---------------------------- MODULE Spec2Model ----------------------------
(***************************************************************************)
(* Model of src/utils/otel_exporter.py: the ModifyingSpanExporter (pattern *)
(* compilation, classification of a batch, subtree removal or reparenting, *)
(* forwarding to the wrapped exporter, shutdown and force_flush) and       *)
(* restructure_trace_spans, under Spec; should_filter_span on its own      *)
(* under FilterSpec; TraceModifyingSpanProcessor.on_end under OnEndSpec,   *)
(* and two concurrent calls of it under ConcurrentOnEndSpec; and           *)
(* set_thread_id_middleware of src/google_adk/agent.py under               *)
(* MiddlewareSpec.                                                         *)
(*                                                                         *)
(* A span object is a record                                               *)
(*   [id, parent, name, repr, links, attrs]                                *)
(* id      span.context.span_id (its place in the batch)                   *)
(* parent  span.parent.span_id, None (0) when span.parent is None          *)
(* name    span.name, a sequence of characters                             *)
(* repr    what the object lets restructure_trace_spans do:                *)
(*         "parent" it has a settable _parent (the SDK's ReadableSpan),    *)
(*         "links"  it has no _parent but a _links list,                   *)
(*         "attrs"  it has neither, only _attributes                       *)
(* links   span._links, the span ids the links point at                    *)
(* attrs   span._attributes, a function from the keys present              *)
(* The batch is the heap: `spans[i]` is the i-th object handed to export,  *)
(* and the lists the code builds (spans_to_keep, final_spans,              *)
(* restructured_spans) are sequences of indices into it, because they hold *)
(* the same objects.                                                       *)
(***************************************************************************)
EXTENDS Integers, Sequences, FiniteSets, TLC

\* Bounds of the model: the longest batch of any shape, the longest batch
\* that is one chain, the longest pattern list.
MaxSpans == 3
MaxChain == 5
MaxPatterns == 2
\* The export calls followed on one exporter.
MaxExports == 2

\* src/utils/otel_exporter.py:164
max_iterations == 10

\* src/utils/otel_exporter.py:464
default_timeout_millis == 30000

None == 0
SpanIds == 1..MaxSpans
\* An id that no span of the batch has (a parent exported in another batch).
OutsideId == MaxSpans + MaxChain + 1
ParentIds == {None} \cup SpanIds \cup {OutsideId}

Names == { <<"a">>, <<"c", "b">> }
Reprs == {"parent", "links", "attrs"}

\* Pattern strings are sequences of tokens: a literal character, "(" (an
\* unbalanced parenthesis) or "{99999999999}" (a repetition count that does
\* not fit).
PatternStrings == { <<"b">>, <<"(">>, <<"b", "{99999999999}">> }

VARIABLES
    pc,                 \* "new" | "raised" | "constructed" | "idle" |
                        \* "restructure" | "sink" | "in_sink" | "done" |
                        \* "in_shutdown" | "in_force_flush" | "delegated"
    pattern_strings,    \* the filter_patterns argument of __init__, while
                        \* __init__ runs
    filter_patterns,    \* self.filter_patterns
    base_exporter,      \* self.base_exporter: "none" before it is set, then
                        \* the sink handed to __init__
    spans,              \* the batch handed to export (the span objects)
    original,           \* the batch as it was when export was called
    reparent_enabled,   \* OTEL_SPAN_REPARENT_ENABLED as export reads it
    filtered_span_ids,  \* export's filtered_span_ids
    spans_to_keep,      \* export's spans_to_keep (indices into spans)
    parent_map,         \* restructure_trace_spans' parent_map
    iteration,          \* restructure_trace_spans' iteration
    modified,           \* spans_modified_this_iteration of the last pass
    to_export,          \* the argument of _export_spans (indices into spans)
    sink_calls,         \* calls of base_exporter.export during this export
    forwarded,          \* what base_exporter.export received (the objects)
    sink_outcome,       \* what base_exporter.export did: its result, or "raise"
    result,             \* what export returned
    exports,            \* the export calls this exporter has completed
    \* a call of shutdown or force_flush
    flush_args,         \* the arguments force_flush was called with
    sink_shutdown_calls,   \* calls of base_exporter.shutdown during the call
    sink_flush_calls,   \* calls of base_exporter.force_flush during the call
    sink_flush_args,    \* the arguments base_exporter.force_flush received
    \* a call of should_filter_span(span, filter_patterns)
    filter_pc,          \* "none" | "call" | "returned"
    filter_span,        \* its span argument
    filter_arg,         \* its filter_patterns argument
    filter_result,      \* what it returned
    \* a call of TraceModifyingSpanProcessor.on_end(span)
    on_end_pc,          \* "none" | "call" | "returned" | "raised"
    on_end_span,        \* its span argument: [name, start_time, end_time,
                        \* attrs], attrs being span._attributes
    on_end_env,         \* os.environ: [ENVIRONMENT, SERVICE_VERSION]
    \* concurrent calls of on_end, one per thread, each with its own span
    on_end_pcs,         \* per thread: the statement it is at ("s1".."s5"),
                        \* "returned" or "raised"
    on_end_spans,       \* per thread: its span argument
    on_end_started,     \* per thread: its span as it was when on_end began
    \* a request through set_thread_id_middleware (src/google_adk/agent.py)
    mw_pc,              \* "none" | "request" | "call_next" | "responded" |
                        \* "raised"
    request,            \* the request: [method, body]
    thread_id,          \* the middleware's thread_id
    token,              \* whether attach gave a token
    context_thread_id,  \* the value of "thread_id" in the current context
    span_attributes     \* the attributes of the google_adk_agent span

\* The variables of a call of should_filter_span.
filterVars == << filter_pc, filter_span, filter_arg, filter_result >>

\* The variables of a call of shutdown or force_flush.
delegationVars ==
    << flush_args, sink_shutdown_calls, sink_flush_calls, sink_flush_args >>

\* The variables of a call of on_end.
onEndVars ==
    << on_end_pc, on_end_span, on_end_env, on_end_pcs, on_end_spans,
       on_end_started >>

\* The variables of a request through the middleware.
middlewareVars ==
    << mw_pc, request, thread_id, token, context_thread_id, span_attributes >>

\* What __init__ and export do not touch.
outsideVars == << delegationVars, filterVars, onEndVars, middlewareVars >>

\* The locals of a call of export, and what its sink received.
exportLocals ==
    << spans, original, reparent_enabled, filtered_span_ids, spans_to_keep,
       parent_map, iteration, modified, to_export, forwarded >>

\* The exporter, a call of export and the sink it wraps.
exporterVars ==
    << pc, pattern_strings, filter_patterns, base_exporter, spans, original,
       reparent_enabled, filtered_span_ids, spans_to_keep, parent_map,
       iteration, modified, to_export, sink_calls, forwarded, sink_outcome,
       result, exports >>

vars == << exporterVars, outsideVars >>

-----------------------------------------------------------------------------
\* Helpers

Range(s) == { s[i] : i \in 1..Len(s) }

\* dict.get(k): None when the key is absent.
Get(m, k) == IF k \in DOMAIN m THEN m[k] ELSE None

\* d[k] = v
Put(m, k, v) == [ x \in DOMAIN m \cup {k} |-> IF x = k THEN v ELSE m[x] ]

EmptyDict == [ x \in {} |-> None ]

SeqsUpTo(S, n) == UNION { [1..k -> S] : k \in 0..n }

-----------------------------------------------------------------------------
\* re.compile and Pattern.search

\* re.compile(pattern_str): a compiled pattern, re.error, or another exception.
re_compile(pattern_str) ==
    IF \E i \in 1..Len(pattern_str) : pattern_str[i] = "{99999999999}"
    THEN "OverflowError"
    ELSE IF \E i \in 1..Len(pattern_str) : pattern_str[i] = "("
         THEN "re.error"
         ELSE "ok"

\* pattern.search(span_name) for a pattern of literal characters: the pattern
\* occurs somewhere in the name.
Search(pattern, span_name) ==
    \E off \in 0..(Len(span_name) - Len(pattern)) :
        \A i \in 1..Len(pattern) : span_name[off + i] = pattern[i]

\* _compile_filter_patterns: the patterns that compile, in order. A pattern on
\* which re.compile raises re.error is skipped.
RECURSIVE CompileFrom(_, _)
CompileFrom(strs, i) ==
    IF i > Len(strs) THEN << >>
    ELSE IF re_compile(strs[i]) = "ok"
         THEN << strs[i] >> \o CompileFrom(strs, i + 1)
         ELSE CompileFrom(strs, i + 1)

_compile_filter_patterns(strs) == CompileFrom(strs, 1)

\* _compile_filter_patterns catches re.error only: any other exception of
\* re.compile leaves __init__.
CompileRaises(strs) ==
    \E i \in 1..Len(strs) : re_compile(strs[i]) \notin {"ok", "re.error"}

\* The loop returning after its first pattern, matched or not.
should_filter_span_first(span, patterns) ==
    patterns # << >> /\ Search(patterns[1], span.name)

\* The loop's return True reached whatever the search found.
should_filter_span_any(span, patterns) == patterns # << >>

should_filter_span(span, patterns) ==
    IF patterns = << >> THEN FALSE
    ELSE \E i \in 1..Len(patterns) : Search(patterns[i], span.name)

-----------------------------------------------------------------------------
\* restructure_trace_spans

\* A parent map that records a parent only for a span whose parent came
\* earlier in the batch.
BuildParentMapSeenParents(all_spans, i) ==
    LET seen == { j \in i..Len(all_spans) :
                    /\ all_spans[j].parent # None
                    /\ \E e \in 1..(j - 1) :
                          all_spans[e].id = all_spans[j].parent }
    IN  [ id \in { all_spans[j].id : j \in seen } |->
            all_spans[CHOOSE j \in seen : all_spans[j].id = id].parent ]

\* The parent map of lines 132-139: child id -> parent id, for the spans that
\* have a parent.
RECURSIVE BuildParentMap(_, _)
BuildParentMap(all_spans, i) ==
    IF i > Len(all_spans) THEN EmptyDict
    ELSE LET rest == BuildParentMap(all_spans, i + 1)
             span == all_spans[i]
         IN  \* a later span with the same id overwrites an earlier one
             IF span.parent # None /\ span.id \notin DOMAIN rest
             THEN Put(rest, span.id, span.parent)
             ELSE rest

\* kept_span_by_id, as the set of its keys.
KeptIds(all_spans, kept) == { all_spans[kept[i]].id : i \in 1..Len(kept) }

\* The walk as the docstring's first reading has it: the filtered span's
\* parent, whether or not that parent was filtered too.
WalkToGrandparent(pm, filtered, kept_ids, current_id, visited) ==
    IF current_id = None THEN None ELSE Get(pm, current_id)

\* The while loop of find_nearest_non_filtered_ancestor.
RECURSIVE Walk(_, _, _, _, _)
Walk(pm, filtered, kept_ids, current_id, visited) ==
    IF current_id = None \/ current_id \in visited THEN None
    ELSE IF current_id \notin filtered /\ current_id \in kept_ids
         THEN current_id
         ELSE Walk(pm, filtered, kept_ids, Get(pm, current_id),
                   visited \cup {current_id})

find_nearest_non_filtered_ancestor(pm, filtered, kept_ids, span_id) ==
    Walk(pm, filtered, kept_ids, Get(pm, span_id), {})

\* The parent the span had in the parent map built before the loop, whatever
\* was written to the span since.
ParentIdOfFirstMap(span, pm) == Get(BuildParentMap(original, 1), span.id)

\* Lines 175-186: the parent the loop looks at, and whether it is filtered.
ParentIdOf(span, pm) ==
    IF span.parent # None THEN span.parent ELSE Get(pm, span.id)

\* The test of line 186 without its second half: any span with a parent.
NeedsReparentAnyParent(span, pm, filtered) == ParentIdOf(span, pm) # None

NeedsReparent(span, pm, filtered) ==
    ParentIdOf(span, pm) # None /\ ParentIdOf(span, pm) \in filtered

\* format(n, "x"): the hexadecimal digits of n.
HexDigits == << "0", "1", "2", "3", "4", "5", "6", "7",
                "8", "9", "a", "b", "c", "d", "e", "f" >>

RECURSIVE Hex(_)
Hex(n) ==
    IF n < 16 THEN << HexDigits[n + 1] >>
    ELSE Hex(n \div 16) \o << HexDigits[(n % 16) + 1] >>

\* f"span_id:{span_id:x}"
SpanIdText(span_id) == << "span_id:" >> \o Hex(span_id)

\* Every tier applied, whether or not an earlier one succeeded.
RewriteEveryTier(span, parent_id, new_parent_id, new_parent_name) ==
    [span EXCEPT
        !.parent = IF span.repr = "parent" THEN new_parent_id ELSE @,
        !.links = IF span.repr # "attrs" THEN Append(@, new_parent_id) ELSE @,
        !.attrs = ("_reparented_to_name" :> new_parent_name)
                  @@ ("_reparented_to" :> SpanIdText(new_parent_id))
                  @@ ("_reparented_from" :> SpanIdText(parent_id)) @@ @]

\* Lines 211-297: the span after the rewrite, by what the object allows: its
\* parent overwritten (lines 214-245), a link appended (lines 274-277), or
\* the _reparented_* attributes set (lines 288-290).
Rewrite(span, parent_id, new_parent_id, new_parent_name) ==
    CASE span.repr = "parent" ->
            [span EXCEPT !.parent = new_parent_id]
      [] span.repr = "links" ->
            [span EXCEPT !.links = Append(@, new_parent_id)]
      [] OTHER ->
            [span EXCEPT !.attrs =
                ("_reparented_to_name" :> new_parent_name)
                @@ ("_reparented_to" :> SpanIdText(new_parent_id))
                @@ ("_reparented_from" :> SpanIdText(parent_id)) @@ @]

\* kept_span_by_id[id].name
NameOf(all_spans, id) ==
    all_spans[CHOOSE i \in 1..Len(all_spans) : all_spans[i].id = id].name

\* The body of the for loop (lines 171-302) for the k-th kept span: st is
\* [spans, parent_map, modified] before it, the value is st after it.
LoopBody(st, kept, filtered, k) ==
    LET span == st.spans[kept[k]]
        kept_ids == KeptIds(st.spans, kept)
        parent_id == ParentIdOf(span, st.parent_map)
        new_parent_id ==
            find_nearest_non_filtered_ancestor(st.parent_map, filtered,
                                               kept_ids, span.id)
    IN  IF NeedsReparent(span, st.parent_map, filtered)
           /\ new_parent_id # None
           /\ new_parent_id \in kept_ids
        THEN [ spans |-> [st.spans EXCEPT ![kept[k]] =
                            Rewrite(span, parent_id, new_parent_id,
                                    NameOf(st.spans, new_parent_id))],
               parent_map |-> Put(st.parent_map, span.id, new_parent_id),
               modified |-> st.modified + 1 ]
        ELSE st

\* One pass of the for loop over restructured_spans, from the k-th span on.
RECURSIVE ForLoop(_, _, _, _)
ForLoop(st, kept, filtered, k) ==
    IF k > Len(kept) THEN st
    ELSE ForLoop(LoopBody(st, kept, filtered, k), kept, filtered, k + 1)

\* One iteration of the while loop (lines 168-302).
OnePass(all_spans, pm, kept, filtered) ==
    ForLoop([spans |-> all_spans, parent_map |-> pm, modified |-> 0],
            kept, filtered, 1)

\* The loop condition off by one.
LoopGuardInclusive(it) == it <= max_iterations

\* Line 167: while iteration < max_iterations
LoopGuard(it) == it < max_iterations

\* The returned list without the spans still below a filtered parent.
RestructuredSpansWithoutOrphans(all_spans, kept, filtered) ==
    SelectSeq(kept, LAMBDA i : all_spans[i].parent \notin filtered)

\* Line 162 and line 329: restructured_spans = list(kept_spans) is what is
\* returned, whatever was rewritten.
RestructuredSpans(all_spans, kept, filtered) == kept

\* The while loop as a whole (lines 167-307), from iteration `it` on: the span
\* objects when it ends.
RECURSIVE WhileLoop(_, _, _, _, _)
WhileLoop(all_spans, pm, kept, filtered, it) ==
    IF ~LoopGuard(it) THEN all_spans
    ELSE LET st == OnePass(all_spans, pm, kept, filtered)
         IN  IF st.modified = 0 THEN st.spans
             ELSE WhileLoop(st.spans, st.parent_map, kept, filtered, it + 1)

\* restructure_trace_spans(all_spans, kept_spans, filtered_span_ids): the span
\* objects after the call.
restructure_trace_spans(all_spans, kept, filtered) ==
    IF filtered = {} THEN all_spans
    ELSE WhileLoop(all_spans, BuildParentMap(all_spans, 1), kept, filtered, 0)

-----------------------------------------------------------------------------
\* ModifyingSpanExporter.export

\* Step 1 (lines 375-384): the ids of the spans that match a pattern, and the
\* other spans in batch order.
FilteredIds(batch, patterns) ==
    { batch[i].id : i \in { j \in 1..Len(batch) :
                                should_filter_span(batch[j], patterns) } }

\* spans_to_keep built by inserting at the front.
RECURSIVE KeepFromReversed(_, _, _)
KeepFromReversed(batch, patterns, i) ==
    IF i > Len(batch) THEN << >>
    ELSE IF should_filter_span(batch[i], patterns)
         THEN KeepFromReversed(batch, patterns, i + 1)
         ELSE KeepFromReversed(batch, patterns, i + 1) \o << i >>

RECURSIVE KeepFrom(_, _, _)
KeepFrom(batch, patterns, i) ==
    IF i > Len(batch) THEN << >>
    ELSE IF should_filter_span(batch[i], patterns)
         THEN KeepFrom(batch, patterns, i + 1)
         ELSE << i >> \o KeepFrom(batch, patterns, i + 1)

SpansToKeep(batch, patterns) == KeepFrom(batch, patterns, 1)

\* Line 392: os.getenv("OTEL_SPAN_REPARENT_ENABLED", "true").lower() in
\* ("true", "1", "yes"); "unset" stands for the variable not being set.
EnvValues == {"unset", "true", "TRUE", "1", "yes", "false", "0", "no", ""}

Lower(str) == IF str = "TRUE" THEN "true" ELSE str

ReparentEnabled(env) ==
    Lower(IF env = "unset" THEN "true" ELSE env) \in {"true", "1", "yes"}

\* What reparent_enabled can be, over the values of the variable.
ReparentFlags == { ReparentEnabled(env) : env \in EnvValues }

RECURSIVE SetToSeq(_)
SetToSeq(S) ==
    IF S = {} THEN << >>
    ELSE LET x == CHOOSE y \in S : TRUE IN << x >> \o SetToSeq(S \ {x})

\* The stack loop left out: only the children of a filtered span are added.
StackLoopSkipped(pm, stack, descendants) == descendants

\* Lines 418-424: the stack loop; the children of the popped id that are not
\* yet in descendants_to_filter are added and pushed.
RECURSIVE StackLoop(_, _, _)
StackLoop(pm, stack, descendants) ==
    IF stack = << >> THEN descendants
    ELSE LET current_id == stack[Len(stack)]
             found == { cid \in DOMAIN pm :
                          pm[cid] = current_id /\ cid \notin descendants }
         IN  StackLoop(pm, SubSeq(stack, 1, Len(stack) - 1) \o SetToSeq(found),
                       descendants \cup found)

\* Lines 411-424: every child of a filtered span is added, then the stack loop
\* runs from it.
RECURSIVE ChildLoop(_, _, _)
ChildLoop(pm, children, descendants) ==
    IF children = {} THEN descendants
    ELSE LET child_id == CHOOSE c \in children : TRUE
         IN  ChildLoop(pm, children \ {child_id},
                       StackLoop(pm, << child_id >>,
                                 descendants \cup {child_id}))

DescendantsToFilter(batch, filtered) ==
    LET pm == BuildParentMap(batch, 1)
    IN  ChildLoop(pm, { c \in DOMAIN pm : pm[c] \in filtered }, filtered)

\* Lines 427-432: final_spans
\* final_spans without the spans whose parent is no span of the batch.
FinalFromKnownParents(batch, kept, descendants, k) ==
    SelectSeq(kept, LAMBDA i :
        /\ batch[i].id \notin descendants
        /\ batch[i].parent \in
              {None} \cup { batch[j].id : j \in 1..Len(batch) })

\* final_spans built by inserting at the front.
FinalFromReversed(batch, kept, descendants, k) ==
    LET final == SelectSeq(kept, LAMBDA i : batch[i].id \notin descendants)
    IN  [ j \in 1..Len(final) |-> final[Len(final) + 1 - j] ]

RECURSIVE FinalFrom(_, _, _, _)
FinalFrom(batch, kept, descendants, k) ==
    IF k > Len(kept) THEN << >>
    ELSE IF batch[kept[k]].id \notin descendants
         THEN << kept[k] >> \o FinalFrom(batch, kept, descendants, k + 1)
         ELSE FinalFrom(batch, kept, descendants, k + 1)

FinalSpans(batch, kept, filtered) ==
    FinalFrom(batch, kept, DescendantsToFilter(batch, filtered), 1)

\* _export_spans without its try: the sink's exception leaves export.
ExportResultUncaught(outcome) ==
    IF outcome = "raise" THEN "raised" ELSE outcome

\* Lines 446-458: what _export_spans returns for what the sink did.
ExportResult(outcome) == IF outcome = "raise" THEN "FAILURE" ELSE outcome

SinkOutcomes == {"SUCCESS", "FAILURE", "raise"}

\* _export_spans calling the sink again when it did not succeed.
AfterSinkRetry(outcome) == IF outcome = "SUCCESS" THEN "done" ELSE "sink"

\* Lines 455 and 458: where _export_spans goes after the sink's export
\* returned or raised; it returns, whatever the outcome.
AfterSink(outcome) == "done"

-----------------------------------------------------------------------------
\* The batches export is called with. Up to MaxSpans spans with the ids 1..n
\* in batch order, any parent (none, a span of the batch, itself, an id
\* outside the batch), any name, no link and no attribute yet; and chains of
\* up to MaxChain spans, each the child of the one before it.
MkBatch(n, repr, ps, ns) ==
    [ i \in 1..n |-> [ id |-> i, parent |-> ps[i], name |-> ns[i],
                       repr |-> repr, links |-> << >>, attrs |-> EmptyDict ] ]

ChainParents(n) == [ i \in 1..n |-> i - 1 ]

PatternLists == SeqsUpTo(PatternStrings, MaxPatterns)

\* No call of should_filter_span is modelled.
FilterNotCalled ==
    /\ filter_pc = "none"
    /\ filter_span = << >>
    /\ filter_arg = << >>
    /\ filter_result = "none"

\* Before ModifyingSpanExporter is constructed.
ExporterInit ==
    /\ pc = "new"
    /\ pattern_strings = << >>
    /\ filter_patterns = << >>
    /\ base_exporter = "none"
    /\ spans = << >>
    /\ original = << >>
    /\ reparent_enabled = TRUE
    /\ filtered_span_ids = {}
    /\ spans_to_keep = << >>
    /\ parent_map = EmptyDict
    /\ iteration = 0
    /\ modified = 0
    /\ to_export = << >>
    /\ sink_calls = 0
    /\ forwarded = << >>
    /\ sink_outcome = "none"
    /\ result = "none"
    /\ exports = 0

\* No call of shutdown or force_flush is under way.
NoDelegation ==
    /\ flush_args = << >>
    /\ sink_shutdown_calls = 0
    /\ sink_flush_calls = 0
    /\ sink_flush_args = << >>

\* No call of on_end is modelled.
NoConcurrentOnEnd ==
    /\ on_end_pcs = << >>
    /\ on_end_spans = << >>
    /\ on_end_started = << >>

OnEndNotCalled ==
    /\ on_end_pc = "none"
    /\ on_end_span = << >>
    /\ on_end_env = << >>
    /\ NoConcurrentOnEnd

\* The value of a name bound to None, or of a key that is not set.
NoValue == "None"

\* No request is modelled.
NoRequest ==
    /\ mw_pc = "none"
    /\ request = << >>
    /\ thread_id = NoValue
    /\ token = FALSE
    /\ context_thread_id = NoValue
    /\ span_attributes = EmptyDict

Init ==
    /\ ExporterInit
    /\ NoDelegation
    /\ FilterNotCalled
    /\ OnEndNotCalled
    /\ NoRequest

\* ModifyingSpanExporter.__init__, up to its return: an exception of
\* _compile_filter_patterns leaves it.
Construct(strs) ==
    /\ pc = "new"
    /\ pattern_strings' = strs
    /\ base_exporter' = "sink"
    /\ IF CompileRaises(strs)
       THEN pc' = "raised" /\ filter_patterns' = << >>
       ELSE pc' = "constructed"
            /\ filter_patterns' = _compile_filter_patterns(strs)
    /\ UNCHANGED outsideVars
    /\ UNCHANGED exports
    /\ UNCHANGED << spans, original, reparent_enabled, filtered_span_ids,
                    spans_to_keep, parent_map, iteration, modified, to_export,
                    sink_calls, forwarded, sink_outcome, result >>

\* __init__ returns: its argument is gone, the exporter holds the compiled
\* patterns.
ConstructReturn ==
    /\ pc = "constructed"
    /\ pc' = "idle"
    /\ pattern_strings' = << >>
    /\ UNCHANGED outsideVars
    /\ UNCHANGED << base_exporter, exports >>
    /\ UNCHANGED << filter_patterns, spans, original, reparent_enabled,
                    filtered_span_ids, spans_to_keep, parent_map, iteration,
                    modified, to_export, sink_calls, forwarded, sink_outcome,
                    result >>

\* The counter of a call that came before, kept.
StaleIteration == iteration

\* Line 165: iteration = 0, whenever restructure_trace_spans is entered.
IterationAtEntry == 0

\* export, up to the call of _export_spans or to the while loop of
\* restructure_trace_spans.
Export(batch, enabled) ==
    LET filtered == FilteredIds(batch, filter_patterns)
        kept == SpansToKeep(batch, filter_patterns)
    IN  /\ pc = "idle"
        /\ spans' = batch
        /\ original' = batch
        /\ filtered_span_ids' = filtered
        /\ spans_to_keep' = kept
        /\ sink_calls' = 0
        /\ forwarded' = << >>
        /\ sink_outcome' = "none"
        /\ result' = "none"
        /\ iteration' = IterationAtEntry
        /\ modified' = 0
        /\ UNCHANGED outsideVars
        /\ UNCHANGED << base_exporter, exports >>
        /\ UNCHANGED << pattern_strings, filter_patterns >>
        /\ \/ /\ filtered = {}
              /\ pc' = "sink"
              /\ to_export' = kept
              /\ parent_map' = EmptyDict
              /\ UNCHANGED reparent_enabled
           \/ /\ filtered # {}
              /\ ~enabled
              /\ reparent_enabled' = FALSE
              /\ pc' = "sink"
              /\ to_export' = FinalSpans(batch, kept, filtered)
              /\ parent_map' = EmptyDict
           \/ /\ filtered # {}
              /\ enabled
              /\ reparent_enabled' = TRUE
              /\ pc' = "restructure"
              /\ to_export' = << >>
              /\ parent_map' = BuildParentMap(batch, 1)

\* export is called with any batch, whatever OTEL_SPAN_REPARENT_ENABLED is
\* (enabled is reparent_enabled of line 392).
ExportCall ==
    /\ pc = "idle"
    /\ exports < MaxExports
    /\ \/ \E n \in 1..MaxSpans, repr \in Reprs, enabled \in ReparentFlags :
            \E ps \in [1..n -> ParentIds], ns \in [1..n -> Names] :
               Export(MkBatch(n, repr, ps, ns), enabled)
       \/ \E n \in (MaxSpans + 1)..MaxChain, repr \in Reprs,
             enabled \in ReparentFlags :
            \E ns \in [1..n -> Names] :
               Export(MkBatch(n, repr, ChainParents(n), ns), enabled)

\* One iteration of the while loop of restructure_trace_spans; the loop is
\* left by the break of line 307 when the pass modified nothing.
RestructurePass ==
    /\ pc = "restructure"
    /\ LoopGuard(iteration)
    /\ \E st \in { OnePass(spans, parent_map, spans_to_keep,
                            filtered_span_ids) } :
           /\ iteration' = iteration + 1
           /\ spans' = st.spans
           /\ parent_map' = st.parent_map
           /\ modified' = st.modified
           /\ IF st.modified = 0
              THEN /\ pc' = "sink"
                   /\ to_export' = RestructuredSpans(st.spans, spans_to_keep,
                                                     filtered_span_ids)
              ELSE pc' = "restructure" /\ UNCHANGED to_export
    /\ UNCHANGED outsideVars
    /\ UNCHANGED << base_exporter, exports >>
    /\ UNCHANGED << pattern_strings, filter_patterns, original,
                    reparent_enabled, filtered_span_ids, spans_to_keep,
                    sink_calls, forwarded, sink_outcome, result >>

\* The while loop ends because iteration reached max_iterations; lines 309-329
\* log and return restructured_spans.
RestructureExit ==
    /\ pc = "restructure"
    /\ ~LoopGuard(iteration)
    /\ pc' = "sink"
    /\ to_export' = RestructuredSpans(spans, spans_to_keep, filtered_span_ids)
    /\ UNCHANGED outsideVars
    /\ UNCHANGED << base_exporter, exports >>
    /\ UNCHANGED << pattern_strings, filter_patterns, spans, original,
                    reparent_enabled, filtered_span_ids, spans_to_keep,
                    parent_map, iteration, modified, sink_calls, forwarded,
                    sink_outcome, result >>

\* _export_spans calls base_exporter.export(spans): the sink receives the
\* span objects of the list.
SinkCall ==
    /\ pc = "sink"
    /\ pc' = "in_sink"
    /\ sink_calls' = sink_calls + 1
    /\ forwarded' = [ k \in 1..Len(to_export) |-> spans[to_export[k]] ]
    /\ UNCHANGED outsideVars
    /\ UNCHANGED << base_exporter, exports >>
    /\ UNCHANGED << pattern_strings, filter_patterns, spans, original,
                    reparent_enabled, filtered_span_ids, spans_to_keep,
                    parent_map, iteration, modified, to_export, sink_outcome,
                    result >>

\* base_exporter.export returns a result or raises, and _export_spans and
\* export return: the batch and export's locals are gone.
SinkReturn(outcome) ==
    /\ pc = "in_sink"
    /\ pc' = AfterSink(outcome)
    /\ sink_outcome' = outcome
    /\ result' = ExportResult(outcome)
    /\ spans' = << >>
    /\ original' = << >>
    /\ filtered_span_ids' = {}
    /\ spans_to_keep' = << >>
    /\ parent_map' = EmptyDict
    /\ modified' = 0
    /\ to_export' = << >>
    /\ forwarded' = << >>
    /\ UNCHANGED outsideVars
    /\ UNCHANGED << base_exporter, exports >>
    /\ UNCHANGED << pattern_strings, filter_patterns, reparent_enabled,
                    iteration, sink_calls >>

\* The exporter waits for the next batch.
Return ==
    /\ pc = "done"
    /\ pc' = "idle"
    /\ reparent_enabled' = TRUE
    /\ sink_calls' = 0
    /\ sink_outcome' = "none"
    /\ result' = "none"
    /\ UNCHANGED outsideVars
    /\ exports' = exports + 1
    /\ UNCHANGED base_exporter
    /\ UNCHANGED << pattern_strings, filter_patterns, spans, original,
                    filtered_span_ids, spans_to_keep, parent_map, iteration,
                    modified, to_export, forwarded >>

\* The timeouts force_flush is called with.
Timeouts == {0, 1, default_timeout_millis}

\* What the sink's shutdown and force_flush do: return a value, or raise.
DelegateOutcomes == {"None", "True", "False", "raise"}

\* force_flush handing the sink its own default.
SinkTimeoutDefault(timeout_millis) == default_timeout_millis

\* Line 466: the timeout base_exporter.force_flush is called with.
SinkTimeout(timeout_millis) == timeout_millis

\* shutdown (line 462) calls base_exporter.shutdown().
Shutdown ==
    /\ pc = "idle"
    /\ pc' = "in_shutdown"
    /\ sink_shutdown_calls' = sink_shutdown_calls + 1
    /\ UNCHANGED << flush_args, sink_flush_calls, sink_flush_args >>
    /\ UNCHANGED << pattern_strings, filter_patterns, base_exporter,
                    exportLocals, sink_calls, sink_outcome, result, exports >>
    /\ UNCHANGED << filterVars, onEndVars, middlewareVars >>

\* force_flush (line 466), called with args (no argument, or a timeout),
\* calls base_exporter.force_flush(timeout_millis).
ForceFlush(args) ==
    LET timeout_millis ==
            IF args = << >> THEN default_timeout_millis ELSE args[1]
    IN  /\ pc = "idle"
        /\ pc' = "in_force_flush"
        /\ flush_args' = args
        /\ sink_flush_calls' = sink_flush_calls + 1
        /\ sink_flush_args' = << SinkTimeout(timeout_millis) >>
        /\ UNCHANGED sink_shutdown_calls
        /\ UNCHANGED << pattern_strings, filter_patterns, base_exporter,
                        exportLocals, sink_calls, sink_outcome, result,
                        exports >>
        /\ UNCHANGED << filterVars, onEndVars, middlewareVars >>

\* The sink's shutdown or force_flush returns or raises, and the method
\* returns what it returned (lines 462 and 466) or ends with its exception.
DelegateReturn(outcome) ==
    /\ pc \in {"in_shutdown", "in_force_flush"}
    /\ pc' = "delegated"
    /\ sink_outcome' = outcome
    /\ result' = outcome
    /\ UNCHANGED delegationVars
    /\ UNCHANGED << pattern_strings, filter_patterns, base_exporter,
                    exportLocals, sink_calls, exports >>
    /\ UNCHANGED << filterVars, onEndVars, middlewareVars >>

\* The exporter waits for the next call.
DelegateDone ==
    /\ pc = "delegated"
    /\ pc' = "idle"
    /\ sink_outcome' = "none"
    /\ result' = "none"
    /\ flush_args' = << >>
    /\ sink_shutdown_calls' = 0
    /\ sink_flush_calls' = 0
    /\ sink_flush_args' = << >>
    /\ UNCHANGED << pattern_strings, filter_patterns, base_exporter,
                    exportLocals, sink_calls, exports >>
    /\ UNCHANGED << filterVars, onEndVars, middlewareVars >>

Next ==
    \/ \E strs \in PatternLists : Construct(strs)
    \/ ConstructReturn
    \/ ExportCall
    \/ RestructurePass
    \/ RestructureExit
    \/ SinkCall
    \/ \E outcome \in SinkOutcomes : SinkReturn(outcome)
    \/ Return
    \/ Shutdown
    \/ \E args \in SeqsUpTo(Timeouts, 1) : ForceFlush(args)
    \/ \E outcome \in DelegateOutcomes : DelegateReturn(outcome)
    \/ DelegateDone

Spec == Init /\ [][Next]_vars

-----------------------------------------------------------------------------
\* should_filter_span called on its own, with any span and any list of
\* compiled patterns (literal characters; the empty pattern matches every
\* name).

FilterNames == { << >>, <<"a">>, <<"c", "b">>, <<"b", "c">> }

FilterPatterns == { << >>, <<"b">>, <<"c", "b">>, <<"z">> }

FilterPatternLists == SeqsUpTo(FilterPatterns, MaxPatterns)

FilterSpans ==
    { [ id |-> 1, parent |-> p, name |-> n, repr |-> r, links |-> << >>,
        attrs |-> EmptyDict ] :
        p \in {None, OutsideId}, n \in FilterNames, r \in Reprs }

FilterInit ==
    /\ ExporterInit
    /\ NoDelegation
    /\ filter_pc = "call"
    /\ filter_span \in FilterSpans
    /\ filter_arg \in FilterPatternLists
    /\ filter_result = "none"
    /\ OnEndNotCalled
    /\ NoRequest

\* should_filter_span(span, filter_patterns) runs and returns; it assigns to
\* nothing but its locals.
ShouldFilterSpan ==
    /\ filter_pc = "call"
    /\ filter_pc' = "returned"
    /\ filter_result' = should_filter_span(filter_span, filter_arg)
    /\ UNCHANGED << filter_span, filter_arg >>
    /\ UNCHANGED << exporterVars, delegationVars, onEndVars, middlewareVars >>

FilterNext == ShouldFilterSpan

FilterSpec == FilterInit /\ [][FilterNext]_vars

-----------------------------------------------------------------------------
\* TraceModifyingSpanProcessor.on_end called with any span. A value of the
\* span is [type, val]: an int (val its value), None, a str (the names: val
\* its characters; a timestamp of the wrong type: a non-empty string), or
\* "absent" when the span has no such attribute.

IntValue(n) == [ type |-> "int", val |-> n ]
StrValue(s) == [ type |-> "str", val |-> s ]
NoneValue == [ type |-> "NoneType", val |-> 0 ]
Absent == [ type |-> "absent", val |-> 0 ]

google_adk == << "g", "o", "o", "g", "l", "e", "_", "a", "d", "k" >>

OnEndNames ==
    { StrValue(google_adk), StrValue(google_adk \o << "_" >>),
      StrValue(<< "l", "l", "m" >>), StrValue(<< "_" >> \o google_adk),
      [ type |-> "NoneType", val |-> << >> ] }

\* Timestamps in nanoseconds.
TimeValues ==
    { Absent, NoneValue, IntValue(0), IntValue(1000000), IntValue(2500000),
      StrValue(1) }

OnEndSpans ==
    { [ name |-> n, start_time |-> s, end_time |-> e, attrs |-> EmptyDict ] :
        n \in OnEndNames, s \in TimeValues, e \in TimeValues }

OnEndEnvs == [ ENVIRONMENT : {"unset", "production"},
               SERVICE_VERSION : {"unset", "2.0.0"} ]

\* os.getenv(key, default)
Getenv(env, key, default) == IF env[key] = "unset" THEN default ELSE env[key]

\* str.startswith
StartsWith(s, prefix) ==
    Len(s) >= Len(prefix) /\ SubSeq(s, 1, Len(prefix)) = prefix

\* bool(value) of a span value that is present.
Truthy(v) ==
    CASE v.type = "int" -> v.val # 0
      [] v.type = "str" -> v.val # 0
      [] OTHER -> FALSE

\* a / b for two ints: the quotient, kept exact as numerator and
\* denominator.
TrueDiv(a, b) == [ num |-> a, den |-> b ]

\* Lines 43-49: the three attributes set for every span.
OnEndStatic(span, env) ==
    ("deployment.environment" :> Getenv(env, "ENVIRONMENT", "development"))
    @@ ("service.version" :> Getenv(env, "SERVICE_VERSION", "1.0.0"))
    @@ ("custom.processor" :> "trace_modifier")
    @@ span.attrs

\* Lines 52-53: span.name.startswith raises when the name is no str.
OnEndAgentType(span, attrs) ==
    IF span.name.type # "str" THEN [ raised |-> TRUE, attrs |-> attrs ]
    ELSE IF StartsWith(span.name.val, google_adk)
         THEN [ raised |-> FALSE,
                attrs |-> ("agent.type" :> "google_adk") @@ attrs ]
         ELSE [ raised |-> FALSE, attrs |-> attrs ]

\* Line 56: both attributes exist and both values are truthy.
HasBothTimes(span) ==
    /\ span.end_time.type # "absent"
    /\ span.start_time.type # "absent"
    /\ Truthy(span.end_time)
    /\ Truthy(span.start_time)

\* Lines 56-58: the subtraction raises unless both values are ints.
OnEndDuration(span, attrs) ==
    IF ~HasBothTimes(span) THEN [ raised |-> FALSE, attrs |-> attrs ]
    ELSE IF span.end_time.type # "int" \/ span.start_time.type # "int"
         THEN [ raised |-> TRUE, attrs |-> attrs ]
         ELSE LET duration_ns == span.end_time.val - span.start_time.val
              IN  [ raised |-> FALSE,
                    attrs |-> ("duration_ms" :> TrueDiv(duration_ns, 1000000))
                              @@ attrs ]

\* on_end (lines 32-58): the span's attributes when it ends, and whether it
\* ended by raising. Nothing in it catches an exception.
on_end(span, env) ==
    LET agent == OnEndAgentType(span, OnEndStatic(span, env))
    IN  IF agent.raised THEN agent ELSE OnEndDuration(span, agent.attrs)

OnEndInit ==
    /\ ExporterInit
    /\ NoDelegation
    /\ FilterNotCalled
    /\ on_end_pc = "call"
    /\ on_end_span \in OnEndSpans
    /\ on_end_env \in OnEndEnvs
    /\ NoConcurrentOnEnd
    /\ NoRequest

\* on_end(span) runs: it returns or raises.
OnEnd ==
    /\ on_end_pc = "call"
    /\ \E r \in { on_end(on_end_span, on_end_env) } :
          /\ on_end_pc' = IF r.raised THEN "raised" ELSE "returned"
          /\ on_end_span' = [on_end_span EXCEPT !.attrs = r.attrs]
    /\ UNCHANGED << on_end_env, on_end_pcs, on_end_spans, on_end_started >>
    /\ UNCHANGED << exporterVars, delegationVars, filterVars, middlewareVars >>

OnEndNext == OnEnd

OnEndSpec == OnEndInit /\ [][OnEndNext]_vars

-----------------------------------------------------------------------------
\* on_end called concurrently, by one thread per span, the threads
\* interleaving between the statements of on_end.

Threads == {1, 2}

\* The spans the threads end: with or without attributes of their own.
ConcurrentSpans ==
    [ name : { StrValue(google_adk), [ type |-> "NoneType", val |-> << >> ] },
      start_time : { IntValue(1000000), StrValue(1) },
      end_time : { NoneValue, IntValue(2500000) },
      attrs : { EmptyDict,
                ("http.method" :> "POST") @@ ("custom.processor" :> "old") } ]

\* The statements of on_end in their order.
OnEndStatements == << "s1", "s2", "s3", "s4", "s5" >>

AfterStatement(label) ==
    CASE label = "s1" -> "s2"
      [] label = "s2" -> "s3"
      [] label = "s3" -> "s4"
      [] label = "s4" -> "s5"
      [] label = "s5" -> "returned"

\* One statement of on_end on a span: line 43, line 46, line 49, lines
\* 52-53, lines 56-58.
OnEndStatement(label, span, env) ==
    CASE label = "s1" ->
            [ raised |-> FALSE,
              attrs |-> ("deployment.environment" :>
                            Getenv(env, "ENVIRONMENT", "development"))
                        @@ span.attrs ]
      [] label = "s2" ->
            [ raised |-> FALSE,
              attrs |-> ("service.version" :>
                            Getenv(env, "SERVICE_VERSION", "1.0.0"))
                        @@ span.attrs ]
      [] label = "s3" ->
            [ raised |-> FALSE,
              attrs |-> ("custom.processor" :> "trace_modifier")
                        @@ span.attrs ]
      [] label = "s4" -> OnEndAgentType(span, span.attrs)
      [] label = "s5" -> OnEndDuration(span, span.attrs)

\* Every call writing to one attribute map held by the processor.
WrittenSpanShared(thread) ==
    CHOOSE first \in Threads : \A other \in Threads : first <= other

\* span._attributes[...] = ...: the map written is the one of the span the
\* call was given.
WrittenSpan(thread) == thread

ConcurrentOnEndInit ==
    /\ ExporterInit
    /\ NoDelegation
    /\ FilterNotCalled
    /\ NoRequest
    /\ on_end_pc = "none"
    /\ on_end_span = << >>
    /\ on_end_env \in OnEndEnvs
    /\ on_end_pcs = [ thread \in Threads |-> "s1" ]
    /\ on_end_spans \in [ Threads -> ConcurrentSpans ]
    /\ on_end_started = on_end_spans

\* A thread runs its next statement of on_end.
OnEndStep(thread) ==
    /\ on_end_pcs[thread] \in Range(OnEndStatements)
    /\ \E r \in { OnEndStatement(on_end_pcs[thread], on_end_spans[thread],
                                   on_end_env) } :
          /\ on_end_pcs' =
                [ on_end_pcs EXCEPT ![thread] =
                    IF r.raised THEN "raised" ELSE AfterStatement(@) ]
          /\ on_end_spans' =
                [ on_end_spans EXCEPT ![WrittenSpan(thread)].attrs = r.attrs ]
    /\ UNCHANGED << on_end_pc, on_end_span, on_end_env, on_end_started >>
    /\ UNCHANGED << exporterVars, delegationVars, filterVars, middlewareVars >>

ConcurrentOnEndNext == \E thread \in Threads : OnEndStep(thread)

ConcurrentOnEndSpec == ConcurrentOnEndInit /\ [][ConcurrentOnEndNext]_vars

-----------------------------------------------------------------------------
\* set_thread_id_middleware of src/google_adk/agent.py, for one request.
\* The body of a request is [kind, metadata]: kind "empty" (no bytes),
\* "invalid" (bytes json.loads rejects), "number" (JSON that is no object)
\* or "object"; metadata of an object is [kind, session_id, thread_id]: kind
\* "absent" (no "metadata" key), "str" (a value that is no object) or "dict",
\* of which session_id and thread_id are the values under these keys
\* (NoValue when the key is not there, "" an empty string).

SessionIds == {"s1", "s2"}

Metadatas ==
    { [ kind |-> "absent", session_id |-> NoValue, thread_id |-> NoValue ],
      [ kind |-> "str", session_id |-> NoValue, thread_id |-> NoValue ] }
    \cup [ kind : {"dict"},
           session_id : {NoValue} \cup SessionIds,
           thread_id : {NoValue, ""} \cup SessionIds ]

NoMetadata == [ kind |-> "absent", session_id |-> NoValue,
                thread_id |-> NoValue ]

Bodies ==
    [ kind : {"empty", "invalid", "number"}, metadata : {NoMetadata} ]
    \cup [ kind : {"object"}, metadata : Metadatas ]

Requests == [ method : {"GET", "PUT", "POST"}, body : Bodies ]

\* Lines 202-215: thread_id after the request was read. json.loads on bytes
\* that are no JSON, `"metadata" in body` on a number and .get on a value
\* that is no dict raise, and the bare except leaves thread_id None.
ThreadIdOf(req) ==
    IF req.method # "POST" THEN NoValue
    ELSE IF req.body.kind # "object" THEN NoValue
    ELSE IF req.body.metadata.kind # "dict" THEN NoValue
    ELSE req.body.metadata.thread_id

\* `if thread_id:` of lines 217, 227: None and "" are false.
IsSet(value) == value # NoValue /\ value # ""

MiddlewareInit ==
    /\ ExporterInit
    /\ NoDelegation
    /\ FilterNotCalled
    /\ OnEndNotCalled
    /\ mw_pc = "request"
    /\ request \in Requests
    /\ thread_id = NoValue
    /\ token = FALSE
    /\ context_thread_id = NoValue
    /\ span_attributes = EmptyDict

\* Lines 200-232: the middleware up to `await call_next(request)`: it reads
\* the body, attaches the context when thread_id is set, starts the span
\* google_adk_agent and sets its attribute when thread_id is set.
MiddlewareEnter ==
    /\ mw_pc = "request"
    /\ mw_pc' = "call_next"
    /\ thread_id' = ThreadIdOf(request)
    /\ token' = IsSet(ThreadIdOf(request))
    /\ context_thread_id' =
          IF IsSet(ThreadIdOf(request)) THEN ThreadIdOf(request)
          ELSE context_thread_id
    /\ span_attributes' =
          IF IsSet(ThreadIdOf(request))
          THEN ("langsmith.metadata.thread_id" :> ThreadIdOf(request))
          ELSE EmptyDict
    /\ UNCHANGED request
    /\ UNCHANGED << exporterVars, delegationVars, filterVars, onEndVars >>

\* Lines 232-238: call_next returns the response or raises; the span ends
\* and the context is detached when a token was taken.
MiddlewareExit(outcome) ==
    /\ mw_pc = "call_next"
    /\ mw_pc' = outcome
    /\ context_thread_id' = IF token THEN NoValue ELSE context_thread_id
    /\ token' = FALSE
    /\ UNCHANGED << request, thread_id, span_attributes >>
    /\ UNCHANGED << exporterVars, delegationVars, filterVars, onEndVars >>

MiddlewareNext ==
    \/ MiddlewareEnter
    \/ \E outcome \in {"responded", "raised"} : MiddlewareExit(outcome)

MiddlewareSpec == MiddlewareInit /\ [][MiddlewareNext]_vars

-----------------------------------------------------------------------------
\* What the properties below speak of, stated on the batch as export
\* received it (original) and not through the maps the code builds.

\* The span's name matches at least one compiled pattern.
Matches(span) ==
    \E i \in 1..Len(filter_patterns) : Search(filter_patterns[i], span.name)

BatchIds == { original[i].id : i \in 1..Len(original) }

MatchedIds ==
    { original[i].id : i \in { j \in 1..Len(original) : Matches(original[j]) } }

OriginalSpan(id) ==
    original[CHOOSE i \in 1..Len(original) : original[i].id = id]

\* The parent id the span with this id had in the batch; None for an id
\* outside the batch.
OriginalParent(id) == IF id \in BatchIds THEN OriginalSpan(id).parent ELSE None

\* The parent chain from an id upwards, nearest first, until it ends or
\* comes back to an id already on it.
RECURSIVE ChainFrom(_, _)
ChainFrom(id, seen) ==
    IF id = None \/ id \in seen THEN << >>
    ELSE << id >> \o ChainFrom(OriginalParent(id), seen \cup {id})

AncestorChain(id) == ChainFrom(OriginalParent(id), {})

HasFilteredAncestor(id) ==
    \E k \in 1..Len(AncestorChain(id)) : AncestorChain(id)[k] \in MatchedIds

\* The first id of the chain that is a span of the batch matching no pattern;
\* None when there is none.
NearestKeptAncestor(id) ==
    LET chain == AncestorChain(id)
        ok == { k \in 1..Len(chain) :
                  chain[k] \in BatchIds /\ chain[k] \notin MatchedIds }
    IN  IF ok = {} THEN None
        ELSE chain[CHOOSE k \in ok : \A j \in ok : k <= j]

ForwardedIds == { forwarded[k].id : k \in 1..Len(forwarded) }

\* The sink has received the batch of this export.
Forwarded == pc = "in_sink"

\* ... after restructure_trace_spans ran on it.
Restructured == Forwarded /\ MatchedIds # {} /\ reparent_enabled

\* ... after the subtree removal of lines 394-436.
SubtreesRemoved == Forwarded /\ MatchedIds # {} /\ ~reparent_enabled

-----------------------------------------------------------------------------
\* Properties

\* C1: after restructure_trace_spans, no span forwarded to the sink has a
\* parent id in the filtered set; each forwarded span's parent is absent or
\* another forwarded span.
C1_NoForwardedSpanHasFilteredParent ==
    Restructured =>
        \A k \in 1..Len(forwarded) :
            LET s == forwarded[k]
            IN  /\ s.parent \notin MatchedIds
                /\ s.parent = None \/ s.parent \in ForwardedIds \ {s.id}

\* The span was kept, its parent was filtered, and its chain holds a kept
\* span.
HasSurvivingAncestor(s) ==
    /\ OriginalSpan(s.id).parent \in MatchedIds
    /\ NearestKeptAncestor(s.id) # None

\* C2 as stated: with reparenting enabled, every kept span whose parent was
\* filtered and whose chain holds a kept span has the nearest such ancestor
\* as its parent after export.
C2_ParentIsNearestKeptAncestor ==
    Restructured =>
        \A k \in 1..Len(forwarded) :
            HasSurvivingAncestor(forwarded[k]) =>
                forwarded[k].parent = NearestKeptAncestor(forwarded[k].id)

\* C2 amended: reparenting is enabled when OTEL_SPAN_REPARENT_ENABLED is unset
\* or one of true/1/yes, and then every kept span whose parent reference can
\* be overwritten, whose parent was filtered and whose chain holds a kept span
\* has the nearest such ancestor as its parent after export, however many
\* filtered ancestors lie between them.
C2_OverwritableParentIsNearestKeptAncestor ==
    /\ \A env \in {"unset", "true", "1", "yes"} : ReparentEnabled(env)
    /\ Restructured =>
          \A k \in 1..Len(forwarded) :
              (forwarded[k].repr = "parent"
                 /\ HasSurvivingAncestor(forwarded[k])) =>
                  forwarded[k].parent = NearestKeptAncestor(forwarded[k].id)

\* A span was reattached across two consecutive filtered ancestors.
C2_Witness ==
    /\ Restructured
    /\ \E k \in 1..Len(forwarded) :
          LET s == forwarded[k]
              chain == AncestorChain(s.id)
          IN  /\ s.repr = "parent"
              /\ Len(chain) >= 3
              /\ chain[1] \in MatchedIds
              /\ chain[2] \in MatchedIds
              /\ chain[3] \notin MatchedIds
              /\ chain[3] # s.id
              /\ s.parent = chain[3]

\* C3: with reparenting disabled, the set forwarded is exactly the spans that
\* match no pattern and have no filtered ancestor at any depth.
C3_SubtreeRemovalIsTransitive ==
    (Forwarded /\ (MatchedIds = {} \/ ~reparent_enabled)) =>
        ForwardedIds = { id \in BatchIds :
                           id \notin MatchedIds /\ ~HasFilteredAncestor(id) }

\* A grandchild of a filtered span, below an unfiltered child, was removed
\* while another unfiltered span was forwarded.
C3_Witness ==
    /\ SubtreesRemoved
    /\ ForwardedIds # {}
    /\ \E id \in BatchIds \ MatchedIds :
          LET chain == AncestorChain(id)
          IN  /\ Len(chain) >= 2
              /\ chain[1] \notin MatchedIds
              /\ chain[1] \in BatchIds
              /\ chain[2] \in MatchedIds
              /\ id \notin ForwardedIds

\* C4: when no span name matches a pattern, the sink receives the spans of
\* the batch in batch order, none of them changed.
C4_PassThrough ==
    (Forwarded /\ MatchedIds = {}) =>
        /\ forwarded = original
        /\ spans = original

\* A batch of several spans with parents passed through an exporter that has
\* patterns.
C4_Witness ==
    /\ Forwarded
    /\ MatchedIds = {}
    /\ filter_patterns # << >>
    /\ Len(forwarded) >= 2
    /\ \E k \in 1..Len(forwarded) : forwarded[k].parent # None

\* C5: export returns SUCCESS exactly when the sink returned SUCCESS, FAILURE
\* when the sink returned FAILURE, and FAILURE when the sink raised; the
\* exception does not leave export.
C5_ResultIsSinkResult ==
    pc = "done" =>
        /\ result \in {"SUCCESS", "FAILURE"}
        /\ result = "SUCCESS" <=> sink_outcome = "SUCCESS"
        /\ sink_outcome = "FAILURE" => result = "FAILURE"
        /\ sink_outcome = "raise" => result = "FAILURE"

\* The sink raised and export returned FAILURE.
C5_Witness == pc = "done" /\ sink_outcome = "raise" /\ result = "FAILURE"

\* C6: with reparenting enabled, the kept children of a filtered root are
\* exported as roots: their parent reference is absent.
C6_ChildrenOfFilteredRootBecomeRoots ==
    Restructured =>
        \A k \in 1..Len(forwarded) :
            LET p == OriginalSpan(forwarded[k].id).parent
            IN  (p \in MatchedIds /\ OriginalParent(p) = None) =>
                    forwarded[k].parent = None

\* C7 as stated: under either policy a span that matches no pattern is in the
\* set forwarded to the sink, whatever its ancestry.
C7_UnmatchedAlwaysForwarded ==
    Forwarded => \A id \in BatchIds \ MatchedIds : id \in ForwardedIds

\* C7 amended: a span that matches no pattern is always classified as kept;
\* it is forwarded whatever its ancestry when reparenting is enabled, and with
\* reparenting disabled when none of its ancestors was filtered.
C7_UnmatchedKeptAndForwardedUnlessSubtreeRemoved ==
    Forwarded =>
        \A i \in 1..Len(original) :
            ~Matches(original[i]) =>
                /\ i \in Range(spans_to_keep)
                /\ (reparent_enabled \/ ~HasFilteredAncestor(original[i].id))
                      => original[i].id \in ForwardedIds

\* With reparenting enabled a span below a filtered parent was forwarded.
C7_Witness ==
    /\ Restructured
    /\ \E id \in ForwardedIds : OriginalParent(id) \in MatchedIds

\* C8: running restructure_trace_spans again on the restructured kept set,
\* with the same filtered ids, changes no span.
C8_RestructureIdempotent ==
    Restructured =>
        restructure_trace_spans(spans, spans_to_keep, filtered_span_ids) = spans

\* C9: restructure_trace_spans terminates for every batch, cyclic parent
\* chains included. The loop never runs more than max_iterations passes;
\* while it runs it can always take a step, and every step either leaves the
\* loop for the call of the sink or counts one more pass; and the sink
\* receives the kept spans, also when the loop stopped at the cap.
C9_RestructureTerminates ==
    /\ [](iteration <= max_iterations)
    /\ [](pc = "restructure" => ENABLED (RestructurePass \/ RestructureExit))
    /\ [][pc = "restructure" =>
            \/ pc' = "sink"
            \/ pc' = "restructure" /\ iteration' = iteration + 1]_vars
    /\ [](pc = "sink" => ENABLED SinkCall)
    /\ [](Restructured =>
            forwarded = [ k \in 1..Len(spans_to_keep) |->
                            spans[spans_to_keep[k]] ])

\* The loop stopped at the cap, with rewrites in its last pass, on a batch
\* in which a span is its own ancestor, and the sink received the kept spans.
C9_Witness ==
    /\ Restructured
    /\ iteration = max_iterations
    /\ modified > 0
    /\ \E id \in BatchIds :
          \E k \in 1..Len(AncestorChain(id)) : AncestorChain(id)[k] = id
    /\ Len(forwarded) = Len(spans_to_keep)

\* The patterns of the list that compile, in the order of the list.
ValidPatterns(strs) == SelectSeq(strs, LAMBDA str : re_compile(str) = "ok")

\* C10: constructing the exporter never raises, and its patterns are the
\* valid patterns of the list in their order.
C10_ConstructNeverRaises ==
    /\ pc # "raised"
    /\ pc = "constructed" => filter_patterns = ValidPatterns(pattern_strings)

\* C11: should_filter_span returns true exactly when the span's name matches
\* at least one pattern of the list, and false for every span when the list
\* is empty; the result is the same for every span of that name, and the call
\* changes neither the span nor the list.
C11_ShouldFilterSpanIsAnyMatch ==
    /\ [](filter_pc = "returned" =>
            /\ filter_result \in BOOLEAN
            /\ filter_result <=>
                  \E i \in 1..Len(filter_arg) :
                      Search(filter_arg[i], filter_span.name)
            /\ filter_arg = << >> => ~filter_result
            /\ \A s \in FilterSpans :
                  s.name = filter_span.name =>
                      should_filter_span(s, filter_arg) = filter_result)
    /\ [][filter_span' = filter_span /\ filter_arg' = filter_arg]_vars

\* A name that only the second pattern of the list matches was filtered.
C11_Witness ==
    /\ filter_pc = "returned"
    /\ filter_result = TRUE
    /\ Len(filter_arg) = 2
    /\ ~Search(filter_arg[1], filter_span.name)

\* The span ids of a sequence of spans, in its order.
IdsOf(seq) == [ k \in 1..Len(seq) |-> seq[k].id ]

\* C12: with reparenting enabled, the sequence forwarded to the sink is
\* exactly the spans of the batch that match no pattern, in batch order:
\* no span is added, removed, duplicated or moved.
C12_ForwardedIsKeptInBatchOrder ==
    (Forwarded /\ reparent_enabled) =>
        IdsOf(forwarded) =
            IdsOf(SelectSeq(original, LAMBDA s : ~Matches(s)))

\* Two kept spans with a filtered span between them in the batch were
\* forwarded, one of them with its parent rewritten.
C12_Witness ==
    /\ Restructured
    /\ Len(forwarded) >= 2
    /\ \E i, j, k \in 1..Len(original) :
          /\ i < j /\ j < k
          /\ ~Matches(original[i])
          /\ Matches(original[j])
          /\ ~Matches(original[k])
    /\ \E k \in 1..Len(forwarded) :
          forwarded[k].parent # OriginalSpan(forwarded[k].id).parent

\* C13: restructuring never touches a span that has no filtered ancestor in
\* its chain (a span whose parent id refers to a span outside the batch
\* included): while restructure_trace_spans runs and after it, its parent
\* reference, links and attributes are what they were in the batch.
C13_NoFilteredAncestorUntouched ==
    (pc \in {"restructure", "sink", "in_sink"} /\ MatchedIds # {}
        /\ reparent_enabled) =>
        \A i \in 1..Len(original) :
            (~Matches(original[i]) /\ ~HasFilteredAncestor(original[i].id))
                => spans[i] = original[i]

\* A span below a parent outside the batch came through unchanged, in a
\* batch in which another span was rewritten.
C13_Witness ==
    /\ Restructured
    /\ \E j, k \in 1..Len(original) :
          /\ ~Matches(original[j]) /\ ~HasFilteredAncestor(original[j].id)
          /\ original[j].parent = OutsideId
          /\ spans[k] # original[k]
          /\ \E m \in 1..Len(forwarded) : forwarded[m] = original[j]

\* What export forwards for a batch when it is the first batch of an
\* exporter with these patterns, under this flag: the span objects the sink
\* receives, with their parents, links and attributes.
FirstExport(batch, patterns, enabled) ==
    LET filtered == FilteredIds(batch, patterns)
        kept == SpansToKeep(batch, patterns)
        final == FinalSpans(batch, kept, filtered)
        after == restructure_trace_spans(batch, kept, filtered)
    IN  IF filtered = {} THEN [ k \in 1..Len(kept) |-> batch[kept[k]] ]
        ELSE IF ~enabled THEN [ k \in 1..Len(final) |-> batch[final[k]] ]
        ELSE [ k \in 1..Len(kept) |-> after[kept[k]] ]

\* C14: export keeps no state between calls. Whatever was exported before,
\* the spans forwarded for a batch and the rewrites applied to them are those
\* of a first export of that batch with the same patterns and flag, and no
\* step after construction changes the exporter's pattern list or its sink
\* reference.
C14_ExportKeepsNoState ==
    /\ [](Forwarded =>
            forwarded = FirstExport(original, filter_patterns,
                                    reparent_enabled))
    /\ [][pc # "new" =>
            /\ filter_patterns' = filter_patterns
            /\ base_exporter' = base_exporter]_vars

\* A batch was restructured and forwarded, with rewrites, by an exporter that
\* had completed an export before.
C14_Witness ==
    /\ Restructured
    /\ exports >= 1
    /\ \E k \in 1..Len(forwarded) :
          forwarded[k] # OriginalSpan(forwarded[k].id)

\* C15: the exporter does not retry. Every export call invokes the sink's
\* export exactly once, whatever the sink does (it succeeds, it returns
\* FAILURE, it raises); a batch of which every span was filtered makes one
\* call with an empty sequence.
C15_SinkCalledExactlyOnce ==
    /\ sink_calls <= 1
    /\ pc \in {"restructure", "sink"} => sink_calls = 0
    /\ pc \in {"in_sink", "done"} => sink_calls = 1
    /\ pc = "done" => sink_outcome \in SinkOutcomes
    /\ (Forwarded /\ BatchIds \subseteq MatchedIds) => forwarded = << >>

\* The sink was called, once, with an empty sequence for a batch of several
\* spans that were all filtered.
C15_Witness ==
    /\ Forwarded
    /\ Len(original) >= 2
    /\ BatchIds \subseteq MatchedIds
    /\ forwarded = << >>
    /\ sink_calls = 1

\* A batch with a parent id that refers to no span of the batch, or with a
\* cycle in a parent chain.
StructuralError(batch) ==
    LET ids == { batch[i].id : i \in 1..Len(batch) }
        pm == BuildParentMap(batch, 1)
        Up[k \in 0..Len(batch), id \in ids] ==
            IF k = 0 THEN {id}
            ELSE { Get(pm, a) : a \in Up[k - 1, id] } \ {None}
    IN  \/ \E i \in 1..Len(batch) : batch[i].parent \notin ids \cup {None}
        \/ \E id \in ids : \E k \in 1..Len(batch) : id \in Up[k, id]

\* C16: a parent id that refers to no span of the batch, or a cycle in the
\* parent chain, never makes export raise or stop before forwarding, under
\* either policy. While export works on such a batch it is in its loop, at
\* the call of the sink or in it, never stopped; the batch is classified;
\* every step up to the return of the sink can be taken; the sink receives
\* the kept spans (enabled) or the kept spans without filtered ancestor
\* (disabled); and export returns what _export_spans makes of the sink's
\* outcome.
C16_StructuralErrorsAreNotFatal ==
    /\ [](StructuralError(original) =>
            /\ pc \in {"restructure", "sink", "in_sink"}
            /\ filtered_span_ids = MatchedIds
            /\ IdsOf([ k \in 1..Len(spans_to_keep) |->
                         spans[spans_to_keep[k]] ]) =
                  IdsOf(SelectSeq(original, LAMBDA s : ~Matches(s)))
            /\ pc = "restructure" =>
                  ENABLED (RestructurePass \/ RestructureExit)
            /\ pc = "sink" => ENABLED SinkCall
            /\ pc = "in_sink" =>
                  /\ \A o \in SinkOutcomes : ENABLED SinkReturn(o)
                  /\ ForwardedIds =
                        IF MatchedIds = {} \/ reparent_enabled
                        THEN BatchIds \ MatchedIds
                        ELSE { id \in BatchIds \ MatchedIds :
                                 ~HasFilteredAncestor(id) })
    /\ [][(pc = "in_sink" /\ StructuralError(original)) =>
            /\ pc' = "done"
            /\ result' = ExportResult(sink_outcome')]_vars

\* With subtree removal, a batch holding a span that is its own ancestor and
\* a span whose parent is outside the batch reached the sink.
C16_Witness ==
    /\ SubtreesRemoved
    /\ ForwardedIds # {}
    /\ \E i \in 1..Len(original) : original[i].parent = OutsideId
    /\ \E id \in BatchIds :
          \E k \in 1..Len(AncestorChain(id)) : AncestorChain(id)[k] = id

\* A call of shutdown or force_flush is under way or has just returned.
Delegating == pc \in {"in_shutdown", "in_force_flush", "delegated"}

\* C17: shutdown and force_flush are pure delegations. A call of shutdown
\* invokes the sink's shutdown exactly once and nothing else of the sink; a
\* call of force_flush(t) invokes the sink's force_flush exactly once, with
\* t (the default 30000 when no timeout is given), and nothing else of the
\* sink; each returns what the sink returned; and neither calls the sink's
\* export or changes the pattern list.
C17_ShutdownAndFlushDelegate ==
    /\ [](pc = "in_shutdown" =>
            /\ sink_shutdown_calls = 1
            /\ sink_flush_calls = 0)
    /\ [](pc = "in_force_flush" =>
            /\ sink_flush_calls = 1
            /\ sink_shutdown_calls = 0
            /\ sink_flush_args =
                  IF flush_args = << >> THEN << default_timeout_millis >>
                  ELSE flush_args)
    /\ [](pc = "delegated" =>
            /\ sink_shutdown_calls + sink_flush_calls = 1
            /\ result = sink_outcome)
    /\ [](Delegating => sink_calls = 0 /\ forwarded = << >>)
    /\ [][(Delegating \/ Delegating') =>
            filter_patterns' = filter_patterns]_vars

\* force_flush was called with a timeout that is not the default, and the
\* sink's force_flush has received it.
C17_Witness ==
    /\ pc = "in_force_flush"
    /\ flush_args # << >>
    /\ flush_args # << default_timeout_millis >>
    /\ sink_flush_args = flush_args
    /\ filter_patterns # << >>

\* on_end has ended, by returning or by raising.
OnEndOver == on_end_pc \in {"returned", "raised"}

\* The timestamp is present: the span has the attribute and it is a number.
Present(v) == v.type = "int"

\* C18: on_end sets duration_ms only when start_time and end_time are both
\* present and end_time >= start_time, and then to the value computed from
\* end_time - start_time; in every other case duration_ms is not set.
C18_DurationOnlyWhenEndNotBeforeStart ==
    (OnEndOver /\ "duration_ms" \in DOMAIN on_end_span.attrs) =>
        /\ Present(on_end_span.start_time)
        /\ Present(on_end_span.end_time)
        /\ on_end_span.end_time.val >= on_end_span.start_time.val
        /\ on_end_span.attrs["duration_ms"] =
              TrueDiv(on_end_span.end_time.val - on_end_span.start_time.val,
                      1000000)

\* C19: on_end never raises, whatever the span (missing timestamps, values
\* of the wrong type): an error while computing one attribute is swallowed,
\* only that attribute is omitted and the others are still set.
C19_OnEndNeverRaises ==
    /\ on_end_pc # "raised"
    /\ OnEndOver =>
          /\ {"deployment.environment", "service.version",
               "custom.processor"} \subseteq DOMAIN on_end_span.attrs
          /\ (on_end_span.name.type = "str"
                 /\ StartsWith(on_end_span.name.val, google_adk))
                => "agent.type" \in DOMAIN on_end_span.attrs
          /\ (Present(on_end_span.start_time)
                 /\ Present(on_end_span.end_time)
                 /\ on_end_span.start_time.val > 0
                 /\ on_end_span.end_time.val >= on_end_span.start_time.val)
                => "duration_ms" \in DOMAIN on_end_span.attrs

\* C20: for every POST request whose JSON body carries
\* metadata.session_id = s, the span google_adk_agent has the attribute
\* langsmith.metadata.thread_id = s and the context value thread_id is s
\* while the request is handled.
C20_SessionIdBecomesThreadId ==
    (/\ mw_pc = "call_next"
     /\ request.method = "POST"
     /\ request.body.kind = "object"
     /\ request.body.metadata.kind = "dict"
     /\ request.body.metadata.session_id \in SessionIds) =>
        /\ "langsmith.metadata.thread_id" \in DOMAIN span_attributes
        /\ span_attributes["langsmith.metadata.thread_id"] =
              request.body.metadata.session_id
        /\ context_thread_id = request.body.metadata.session_id

\* C21: a span whose parent reference cannot be overwritten but that has a
\* link list gets exactly one link, pointing at its new parent, per export,
\* and keeps its original parent reference.
C21_OneLinkPerExport ==
    Restructured =>
        \A k \in 1..Len(forwarded) :
            (forwarded[k].repr = "links"
               /\ HasSurvivingAncestor(forwarded[k])) =>
                /\ forwarded[k].links =
                      << NearestKeptAncestor(forwarded[k].id) >>
                /\ forwarded[k].parent =
                      OriginalSpan(forwarded[k].id).parent

\* The _reparented_* attributes.
ReparentedKeys ==
    {"_reparented_from", "_reparented_to", "_reparented_to_name"}

\* C22: the first rewrite tier that succeeds is the only one applied to a
\* span. A span whose parent was overwritten has no link and no
\* _reparented_* attribute; a span that got a link has no _reparented_*
\* attribute; the attributes are written only to a span that allows neither
\* overwrite nor link, and its parent reference and links are then
\* unchanged.
C22_OnlyFirstTierApplied ==
    (pc \in {"restructure", "sink", "in_sink"} /\ MatchedIds # {}
        /\ reparent_enabled) =>
        \A i \in 1..Len(spans) :
            /\ spans[i].parent # original[i].parent =>
                  /\ spans[i].repr = "parent"
                  /\ spans[i].links = original[i].links
                  /\ spans[i].attrs = original[i].attrs
            /\ spans[i].links # original[i].links =>
                  /\ spans[i].repr = "links"
                  /\ spans[i].attrs = original[i].attrs
            /\ spans[i].attrs # original[i].attrs =>
                  /\ spans[i].repr = "attrs"
                  /\ DOMAIN spans[i].attrs =
                        DOMAIN original[i].attrs \cup ReparentedKeys
                  /\ spans[i].parent = original[i].parent
                  /\ spans[i].links = original[i].links

\* A span that allows neither overwrite nor link was forwarded with the
\* _reparented_* attributes naming its filtered parent and its new parent.
C22_Witness ==
    /\ Restructured
    /\ \E k \in 1..Len(forwarded) :
          LET s == forwarded[k]
          IN  /\ s.repr = "attrs"
              /\ HasSurvivingAncestor(s)
              /\ DOMAIN s.attrs = ReparentedKeys
              /\ s.attrs["_reparented_from"] = SpanIdText(s.parent)
              /\ s.attrs["_reparented_to"] =
                    SpanIdText(NearestKeptAncestor(s.id))
              /\ s.links = << >>

\* C23: restructuring never makes a span its own parent, also when a kept
\* span and its filtered parent form a cycle: a parent reference that was
\* rewritten does not refer to the span itself.
C23_NeverOwnParent ==
    Restructured =>
        \A k \in 1..Len(forwarded) :
            forwarded[k].parent # OriginalSpan(forwarded[k].id).parent =>
                forwarded[k].parent # forwarded[k].id

\* C24: concurrent on_end calls for distinct spans do not interfere. In
\* every interleaving a step of one call changes the span of that call only
\* and nothing but its attribute map, no key and no span is ever removed,
\* and a call that is over leaves its span with the attributes on_end gives
\* it when run alone (and has raised exactly when on_end alone raises).
C24_ConcurrentOnEndIndependent ==
    /\ [](\A thread \in DOMAIN on_end_pcs :
            on_end_pcs[thread] \in {"returned", "raised"} =>
                LET alone == on_end(on_end_started[thread], on_end_env)
                IN  /\ on_end_spans[thread].attrs = alone.attrs
                    /\ on_end_pcs[thread] = "raised" <=> alone.raised)
    /\ [][/\ DOMAIN on_end_spans' = DOMAIN on_end_spans
           /\ \A thread \in DOMAIN on_end_pcs :
                 /\ DOMAIN on_end_spans[thread].attrs
                       \subseteq DOMAIN on_end_spans'[thread].attrs
                 /\ [on_end_spans'[thread] EXCEPT !.attrs = << >>] =
                       [on_end_spans[thread] EXCEPT !.attrs = << >>]
                 /\ on_end_pcs'[thread] = on_end_pcs[thread] =>
                       on_end_spans'[thread] = on_end_spans[thread]]_vars

\* Two calls are under way at different statements, each with attributes
\* already written to its own span, one of the spans having had attributes
\* of its own.
C24_Witness ==
    /\ DOMAIN on_end_pcs = Threads
    /\ on_end_pcs[1] = "s4"
    /\ on_end_pcs[2] = "s2"
    /\ on_end_started[1].attrs # EmptyDict
    /\ on_end_started[2].attrs = EmptyDict
    /\ on_end_spans[1].attrs # on_end_started[1].attrs
    /\ on_end_spans[2].attrs # on_end_started[2].attrs

\* C25: with rewrites applied by overwriting the parent, restructuring
\* converges in one pass. For every batch whose spans allow the overwrite
\* (chains of consecutive filtered ancestors and cyclic chains included) the
\* second pass of the loop rewrites nothing, so the loop is left after at
\* most two passes, below the cap of max_iterations.
C25_ConvergesInOnePass ==
    (/\ pc \in {"restructure", "sink", "in_sink"}
     /\ reparent_enabled
     /\ MatchedIds # {}
     /\ \A i \in 1..Len(original) : original[i].repr = "parent")
    => /\ iteration <= 2
       /\ iteration < max_iterations
       /\ iteration = 2 => modified = 0
       /\ (pc = "restructure" /\ iteration = 1) => modified > 0
       /\ pc \in {"sink", "in_sink"} => (iteration >= 1 /\ modified = 0)

\* The loop was left after its second pass, which rewrote nothing, for a
\* batch in which a span that allows the overwrite had a filtered parent
\* whose own parent was filtered too, and was moved below a kept ancestor.
C25_Witness ==
    /\ Restructured
    /\ iteration = 2
    /\ modified = 0
    /\ \E k \in 1..Len(forwarded) :
          LET span == forwarded[k]
              parent == OriginalParent(span.id)
          IN  /\ span.repr = "parent"
              /\ parent \in MatchedIds
              /\ OriginalParent(parent) \in MatchedIds
              /\ span.parent \notin MatchedIds
              /\ span.parent # parent

\* The orders in which the spans of a batch of n spans can arrive.
BatchOrders(n) ==
    { f \in [1..n -> 1..n] : \A i, j \in 1..n : f[i] = f[j] => i = j }

\* C26: the result of restructuring does not depend on the order of the
\* spans in the batch. For every permutation of a batch that was restructured
\* and forwarded, the export of the permuted batch forwards the same spans
\* and each of them ends with the same parent id.
C26_OrderIndependent ==
    Restructured =>
        \A f \in BatchOrders(Len(original)) :
            LET permuted == [ i \in 1..Len(original) |-> original[f[i]] ]
                other == FirstExport(permuted, filter_patterns, TRUE)
            IN  /\ Range(IdsOf(other)) = Range(IdsOf(forwarded))
                /\ \A k \in 1..Len(forwarded) :
                      \A m \in 1..Len(other) :
                          other[m].id = forwarded[k].id =>
                              other[m].parent = forwarded[k].parent

\* A batch of three spans or more was restructured and forwarded in which a
\* rewritten span came before its filtered parent and before the kept span
\* it was moved below.
C26_Witness ==
    /\ Restructured
    /\ Len(original) >= 3
    /\ \E k \in 1..Len(forwarded) :
          LET span == forwarded[k]
              parent == OriginalParent(span.id)
          IN  /\ span.repr = "parent"
              /\ parent \in MatchedIds
              /\ parent > span.id
              /\ span.parent \in BatchIds \ MatchedIds
              /\ span.parent > span.id

\* C27: with reparenting disabled, export mutates no span. When the spans to
\* forward are chosen and when the sink has received them, every span of the
\* batch, forwarded or dropped, has the parent, the links and the attributes
\* it arrived with, and the spans forwarded are spans of the batch in their
\* batch order.
C27_DisabledMutatesNothing ==
    (/\ pc \in {"sink", "in_sink"}
     /\ MatchedIds # {}
     /\ ~reparent_enabled)
    => /\ spans = original
       /\ \A k \in 1..Len(to_export) :
             /\ to_export[k] \in 1..Len(original)
             /\ k > 1 => to_export[k - 1] < to_export[k]
       /\ pc = "in_sink" =>
             forwarded = [ k \in 1..Len(to_export) |-> original[to_export[k]] ]

\* With reparenting disabled, the sink has received two spans or more of a
\* batch of which a span matched a pattern and a span that matched none was
\* dropped below it.
C27_Witness ==
    /\ SubtreesRemoved
    /\ Len(forwarded) >= 2
    /\ \E i \in 1..Len(original) :
          /\ original[i].id \notin MatchedIds
          /\ HasFilteredAncestor(original[i].id)
          /\ \A k \in 1..Len(forwarded) : forwarded[k].id # original[i].id

=============================================================================
